---- MODULE Spec2Model ----
(***************************************************************************)
(* Model of generate_internal_notes.py: the parsing of the date/time text, *)
(* the venue resolution, the detection of combined Tech Flex bookings, the *)
(* setup and breakdown rules, and the two passes of process_csv.           *)
(*                                                                         *)
(* A datetime is the number of minutes since midnight of day 0, and day 0  *)
(* is a Monday: date(dt) is the day ordinal, hour(dt)/minute(dt) the wall  *)
(* clock.  None is Python's None.  A location is the sequence of its       *)
(* words, so that Python's substring test becomes a test for a contiguous  *)
(* run of words.                                                           *)
(***************************************************************************)
EXTENDS Integers, Sequences, FiniteSets, TLC

VARIABLES
    rows,                 \* the rows of the CSV file (csv.DictReader)
    all_events,           \* process_csv: all_events (list of dicts)
    events,               \* process_csv: events, as indices into all_events
    combined_bookings,    \* process_csv: combined_bookings
    venue_date_events,    \* process_csv: venue_date_events
    processed_combined,   \* process_csv: processed_combined
    notes_output,         \* process_csv: notes_output
    pc,                   \* position in process_csv
    i,                    \* position of "for event in events"
    arg_event,            \* generate_internal_notes: event
    arg_same_venue_events,\* generate_internal_notes: same_venue_events
    ret_notes,            \* generate_internal_notes: the returned notes
    date_time_str,        \* parse_datetime: date_time_str
    ret_parse             \* parse_datetime: the returned pair

vars == <<rows, all_events, events, combined_bookings,
          venue_date_events, processed_combined, notes_output, pc, i,
          arg_event, arg_same_venue_events, ret_notes, date_time_str, ret_parse>>

csv_vars == <<rows, all_events, events, combined_bookings,
              venue_date_events, processed_combined, notes_output, pc, i>>

rule_vars == <<arg_event, arg_same_venue_events, ret_notes>>

parse_vars == <<date_time_str, ret_parse>>

----------------------------------------------------------------------------
(* Bounds of the model *)

MaxRows == 4

MaxVenueRows == 3

MaxCtx == 2

----------------------------------------------------------------------------
(* Configuration *)

WORK_START == 8

WORK_END == 20

LUNCH_START == 12

LUNCH_END == 13

DEFAULT_SETUP_HOURS == 2

None == 0 - 1

----------------------------------------------------------------------------
(* datetime *)

MinPerDay == 24 * 60

HM(h, m) == h * 60 + m

At(day, clock) == day * MinPerDay + clock

date(dt) == dt \div MinPerDay

hour(dt) == (dt % MinPerDay) \div 60

minute(dt) == dt % 60

replace(dt, h, m) == date(dt) * MinPerDay + h * 60 + m

timedelta_hours(h) == h * 60

timedelta_days(d) == d * MinPerDay

weekday(dt) == date(dt) % 7

get_am_pm(dt) == IF hour(dt) < 12 THEN "AM" ELSE "PM"

strftime_I_M_p(dt) ==
    <<IF hour(dt) % 12 = 0 THEN 12 ELSE hour(dt) % 12, minute(dt), get_am_pm(dt)>>

generate_reservation_number(event_date, venue_code, start_time) ==
    <<date(event_date), venue_code, get_am_pm(start_time)>>

----------------------------------------------------------------------------
(* calculate_setup_time *)

DefaultSetup(event_start) == event_start - timedelta_hours(DEFAULT_SETUP_HOURS)

AvoidLunch(setup_time) ==
    IF hour(setup_time) = 12
    THEN replace(setup_time, 11, 0)
    ELSE IF hour(setup_time) < 12
            /\ hour(setup_time + timedelta_hours(DEFAULT_SETUP_HOURS)) > 12
         THEN replace(setup_time, 11, 0)
         ELSE setup_time

WithinWorkHours_Keep(setup_time) == setup_time

WithinWorkHours(setup_time) ==
    IF hour(setup_time) < WORK_START
    THEN replace(setup_time, WORK_START, 0)
    ELSE IF hour(setup_time) >= WORK_END
         THEN replace(setup_time, WORK_START, 0)
         ELSE setup_time

AfterOther_Always(setup_time, event_start, other_event) ==
    IF other_event.end_time # None /\ other_event.start_time # None
       /\ date(other_event.end_time) = date(event_start)
       /\ other_event.end_time < event_start
    THEN other_event.end_time + 15
    ELSE setup_time

AfterOther(setup_time, event_start, other_event) ==
    IF other_event.end_time # None /\ other_event.start_time # None
       /\ date(other_event.end_time) = date(event_start)
       /\ other_event.end_time < event_start
       /\ other_event.end_time > setup_time
    THEN other_event.end_time + 15
    ELSE setup_time

SetupConflicts_First(setup_time, event_start, others) ==
    IF others = <<>>
    THEN setup_time
    ELSE AfterOther(setup_time, event_start, Head(others))

RECURSIVE SetupConflicts(_, _, _)
SetupConflicts(setup_time, event_start, others) ==
    IF others = <<>>
    THEN setup_time
    ELSE SetupConflicts(AfterOther(setup_time, event_start, Head(others)),
                        event_start, Tail(others))

calculate_setup_time(event_start, same_venue_events) ==
    SetupConflicts(WithinWorkHours(AvoidLunch(DefaultSetup(event_start))),
                   event_start, same_venue_events)

----------------------------------------------------------------------------
(* calculate_breakdown_time *)

EndsAfterWork_Strict(event_end) == hour(event_end) > WORK_END

EndsAfterWork(event_end) == hour(event_end) >= WORK_END

NextDayBreakdown(event_end) == replace(event_end + timedelta_days(1), 10, 0)

IsNextEvent(event_end, other_event) ==
    /\ other_event.start_time # None
    /\ date(other_event.start_time) = date(event_end)
    /\ other_event.start_time > event_end

BeforeNext(event_end, other_event) ==
    IF event_end + 15 >= other_event.start_time
    THEN [breakdown_time |-> event_end,
          note |-> <<"Before next event at", strftime_I_M_p(other_event.start_time)>>]
    ELSE [breakdown_time |-> event_end + 15, note |-> <<>>]

RECURSIVE BreakdownConflicts(_, _)
BreakdownConflicts(event_end, others) ==
    IF others = <<>>
    THEN [breakdown_time |-> event_end, note |-> <<>>]
    ELSE IF IsNextEvent(event_end, Head(others))
         THEN BeforeNext(event_end, Head(others))
         ELSE BreakdownConflicts(event_end, Tail(others))

calculate_breakdown_time(event_end, same_venue_events) ==
    IF EndsAfterWork(event_end)
    THEN [breakdown_time |-> NextDayBreakdown(event_end), note |-> <<>>]
    ELSE BreakdownConflicts(event_end, same_venue_events)

----------------------------------------------------------------------------
(* generate_internal_notes *)

generate_internal_notes(event, venue_code, same_venue_events) ==
    IF event.start_time = None \/ event.end_time = None
    THEN [error |-> TRUE, event_name |-> event.event_name,
          reservation_number |-> <<>>, setup_time |-> None,
          setup_requirements |-> <<>>, breakdown_time |-> None,
          breakdown_note |-> <<>>]
    ELSE LET bd == calculate_breakdown_time(event.end_time, same_venue_events)
         IN [error |-> FALSE, event_name |-> event.event_name,
             reservation_number |->
                 generate_reservation_number(event.start_time, venue_code,
                                             event.start_time),
             setup_time |-> calculate_setup_time(event.start_time, same_venue_events),
             setup_requirements |-> event.setup_requirements,
             breakdown_time |-> bd.breakdown_time,
             breakdown_note |-> bd.note]

----------------------------------------------------------------------------
(* parse_datetime.  The text of a "Date & Time" cell is modelled by its    *)
(* shape and its tokens:                                                   *)
(*   "range"   Jan 27, 2026 6:30 PM - 9:00 PM                  (pattern1)  *)
(*   "range2"  Jan 27, 2026 10:00 PM - Jan 28, 2026 1:00 AM    (pattern1b) *)
(*   "dmy"     27-Jan-26                                       (pattern2)  *)
(*   "date"    Jan 27, 2026                                    (pattern3)  *)
(*   "other"   any text of no supported form;  "empty"  the empty cell     *)
(* d1, d2 are the day ordinals the date tokens name, t1 and t2 the clock   *)
(* tokens <<hour, minute, "AM"|"PM">> as written.                          *)

Text(form, d1, t1, d2, t2) == [form |-> form, d1 |-> d1, t1 |-> t1, d2 |-> d2, t2 |-> t2]

NoClock == <<0, 0, "">>

\* %I:%M %p accepts the hours 1..12 and the minutes 0..59
strptime_ok(t) == t[1] \in 1..12 /\ t[2] \in 0..59 /\ t[3] \in {"AM", "PM"}

strptime_clock(t) == HM((t[1] % 12) + (IF t[3] = "PM" THEN 12 ELSE 0), t[2])

strptime(d, t) == At(d, strptime_clock(t))

parse_datetime(s) ==
    IF s.form = "empty"
    THEN <<None, None>>
    ELSE IF s.form = "range" /\ strptime_ok(s.t1) /\ strptime_ok(s.t2)
    THEN <<strptime(s.d1, s.t1), strptime(s.d1, s.t2)>>
    ELSE IF s.form = "range2" /\ strptime_ok(s.t1) /\ strptime_ok(s.t2)
    THEN <<strptime(s.d1, s.t1), strptime(s.d2, s.t2)>>
    ELSE IF s.form = "dmy"
    THEN <<At(s.d1, 0), At(s.d1, 0)>>
    ELSE IF s.form = "date"
    THEN <<At(s.d1, 0), At(s.d1, 0)>>
    ELSE <<None, None>>

----------------------------------------------------------------------------
(* Venue resolver *)

TFA == <<"UCC", "Tech", "Flex", "Space", "A">>

TFB == <<"UCC", "Tech", "Flex", "Space", "B">>

TFC == <<"UCC", "Tech", "Flex", "Space", "C">>

CombinedLocation == <<"UCC", "Tech", "Flex", "Space", "A", ",", "B", ",", "C", "(Combined)">>

\* Python's  key in location
Contains(key, location) ==
    \E k \in 1..(Len(location) - Len(key) + 1) :
        SubSeq(location, k, k + Len(key) - 1) = key

\* the entries of VENUE_CODES that the locations of the model can match,
\* in the order of the dictionary
VENUE_CODES ==
    << <<TFA, "UCCA">>, <<TFB, "UCCB">>, <<TFC, "UCCC">>,
       << <<"UCC", "106">>, "UCCG">>,
       << <<"Babbio", "210">>, "BC210">>,
       << <<"Babbio", "212">>, "BC212">>,
       << <<"Library">>, "LIB">> >>

\* The scan of the table.  Every location of the model contains a key of
\* the table; for a location that contains none the code derives a code
\* from the initials of its words (lines 255-266), which is not modelled:
\* "VENUE" is what it returns for a location without a letter.
RECURSIVE FirstMatch(_, _)
FirstMatch(table, location) ==
    IF table = <<>>
    THEN "VENUE"
    ELSE IF Contains(Head(table)[1], location)
         THEN Head(table)[2]
         ELSE FirstMatch(Tail(table), location)

get_venue_code(location) ==
    IF location = <<>> THEN "UNKNOWN" ELSE FirstMatch(VENUE_CODES, location)

----------------------------------------------------------------------------
(* Strings of the rows *)

Placeholder == "[Setup requirements not specified in CSV]"

\* str.strip().lower() on the event names of the model
strip_lower(name) ==
    CASE name = "Gala" -> "gala"
      [] name = " GALA" -> "gala"
      [] name = "Expo" -> "expo"
      [] OTHER -> name

\* str.strip().upper() on the Process_Event cells of the model
strip_upper(flag) ==
    CASE flag = "yes " -> "YES"
      [] flag = "no" -> "NO"
      [] OTHER -> flag

\* the indices k of a list, in order, whose element satisfies Test
Indices(list, Test(_)) ==
    SelectSeq([k \in 1..Len(list) |-> k], LAMBDA k : Test(list[k]))

Range(f) == {f[k] : k \in DOMAIN f}

----------------------------------------------------------------------------
(* detect_techflex_abc_booking *)

evt_key_of(event) == <<strip_lower(event.event_name), date(event.start_time)>>

IsTechFlex(event) ==
    Contains(<<"UCC", "Tech", "Flex", "Space">>, event.location) /\ event.start_time # None

techflex_events(evs) ==
    [key \in {evt_key_of(evs[k]) : k \in {j \in 1..Len(evs) : IsTechFlex(evs[j])}} |->
        Indices(evs, LAMBDA e : IsTechFlex(e) /\ evt_key_of(e) = key)]

space_of(location) ==
    IF Contains(<<"Space", "A">>, location) THEN {"A"}
    ELSE IF Contains(<<"Space", "B">>, location) THEN {"B"}
    ELSE IF Contains(<<"Space", "C">>, location) THEN {"C"}
    ELSE {}

spaces_of(evs, event_list) == UNION {space_of(evs[k].location) : k \in Range(event_list)}

AllSpaces(spaces) == spaces = {"A", "B", "C"}

detect_techflex_abc_booking(evs) ==
    LET tf == techflex_events(evs)
    IN [key \in {q \in DOMAIN tf : AllSpaces(spaces_of(evs, tf[q]))} |-> tf[key]]

----------------------------------------------------------------------------
(* process_csv, first pass: the rows become event dicts.  A dict is known  *)
(* by its index in all_events (Python's id), and events holds indices, as  *)
(* the two lists share the dicts.                                          *)

Row(event_name, date_time, location, setup_requirements, process_event) ==
    [event_name |-> event_name, date_time |-> date_time, location |-> location,
     setup_requirements |-> setup_requirements, process_event |-> process_event]

event_data(row, k) ==
    [event_name |-> row.event_name,
     location |-> row.location,
     start_time |-> parse_datetime(row.date_time)[1],
     end_time |-> parse_datetime(row.date_time)[2],
     setup_requirements |->
         IF row.setup_requirements = "" THEN <<Placeholder>>
         ELSE <<row.setup_requirements>>,
     process_event |-> row.process_event,
     raw_row |-> k]

HasStart(row) == parse_datetime(row.date_time)[1] # None

load_all_events(rs) ==
    LET kept == SelectSeq([k \in 1..Len(rs) |-> k], LAMBDA k : HasStart(rs[k]))
    IN [j \in 1..Len(kept) |-> event_data(rs[kept[j]], kept[j])]

MarkedYes(event) ==
    event.process_event # "" /\ strip_upper(event.process_event) = "YES"

load_events(evs) == Indices(evs, MarkedYes)

venue_key_of(event) == <<event.location, date(event.start_time)>>

group_by_venue_date(evs) ==
    [key \in {venue_key_of(evs[k]) : k \in 1..Len(evs)} |->
        Indices(evs, LAMBDA e : venue_key_of(e) = key)]

NoEvents == [event |-> 0, message |-> "No events found with Process_Event = YES"]

----------------------------------------------------------------------------
(* process_csv, second pass: one iteration of "for event in events" *)

\* '; '.join(set(setup_reqs)): the parts in the set's iteration order
join_set(reqs, order) == SelectSeq(order, LAMBDA t : <<t>> \in reqs)

setup_reqs_of(evs, event_list) ==
    {evs[k].setup_requirements : k \in Range(event_list)} \ {<<>>, <<Placeholder>>}

MergedEvent(evs, idx, event_list, order) ==
    LET setup_reqs == setup_reqs_of(evs, event_list)
    IN [evs[idx] EXCEPT !.location = CombinedLocation,
                        !.setup_requirements =
                            IF setup_reqs # {} THEN join_set(setup_reqs, order) ELSE @]

UpdateCombined_All(evs, idx, event_list, order) ==
    [k \in 1..Len(evs) |->
        IF k = idx THEN MergedEvent(evs, idx, event_list, order)
        ELSE IF k \in Range(event_list)
             THEN [evs[k] EXCEPT !.location = CombinedLocation]
             ELSE evs[k]]

UpdateCombined(evs, idx, event_list, order) ==
    [evs EXCEPT ![idx] = MergedEvent(evs, idx, event_list, order)]

combined_context(evs, idx) ==
    LET InSpace(space) ==
            SelectSeq([k \in 1..Len(evs) |-> k], LAMBDA k :
                /\ Contains(space, evs[k].location)
                /\ date(evs[k].start_time) = date(evs[idx].start_time)
                /\ k # idx
                /\ strip_lower(evs[k].event_name) # strip_lower(evs[idx].event_name))
    IN InSpace(TFA) \o InSpace(TFB) \o InSpace(TFC)

venue_context(evs, idx, vde) ==
    SelectSeq(vde[venue_key_of(evs[idx])], LAMBDA k : k # idx)

Dicts(evs, indices) == [k \in 1..Len(indices) |-> evs[indices[k]]]

Output(evs, idx, venue_code, ctx) ==
    [event |-> idx,
     venue_code |-> venue_code,
     location |-> evs[idx].location,
     same_venue_events |-> ctx,
     notes |-> generate_internal_notes(evs[idx], venue_code, Dicts(evs, ctx))]

\* the state after the iteration for events[n]
Iteration(st, evts, cb, vde, order) ==
    LET idx == evts[st.i]
        key == evt_key_of(st.all_events[idx])
        is_combined == key \in DOMAIN cb
    IN IF is_combined /\ key \in st.processed_combined
       THEN [st EXCEPT !.i = @ + 1]
       ELSE IF is_combined
       THEN LET evs == UpdateCombined(st.all_events, idx, cb[key], order)
            IN [all_events |-> evs,
                processed_combined |-> st.processed_combined \cup {key},
                notes_output |->
                    Append(st.notes_output,
                           Output(evs, idx, "UCCABC", combined_context(evs, idx))),
                i |-> st.i + 1]
       ELSE [all_events |-> st.all_events,
             processed_combined |-> st.processed_combined,
             notes_output |->
                 Append(st.notes_output,
                        Output(st.all_events, idx,
                               get_venue_code(st.all_events[idx].location),
                               venue_context(st.all_events, idx, vde))),
             i |-> st.i + 1]

RECURSIVE Iterate(_, _, _, _, _)
Iterate(st, evts, cb, vde, order) ==
    IF st.i > Len(evts) THEN st
    ELSE Iterate(Iteration(st, evts, cb, vde, order), evts, cb, vde, order)

\* the whole of process_csv on the rows rs: its final all_events and notes
process_csv(rs, order) ==
    LET evs == load_all_events(rs)
        evts == load_events(evs)
    IN IF evts = <<>>
       THEN [all_events |-> evs, processed_combined |-> {},
             notes_output |-> <<NoEvents>>, i |-> 1]
       ELSE Iterate([all_events |-> evs, processed_combined |-> {},
                     notes_output |-> <<>>, i |-> 1],
                    evts, detect_techflex_abc_booking(evs),
                    group_by_venue_date(evs), order)

----------------------------------------------------------------------------
(* The inputs of the model.  Day 7 is a Monday, day 11 the Friday of the   *)
(* same week.                                                              *)

Monday == At(7, 0)

Friday == At(11, 0)

Clock(h, m, p) == <<h, m, p>>

SameDay(d, t1, t2) == Text("range", d, t1, d, t2)

T0900 == SameDay(7, Clock(9, 0, "AM"), Clock(10, 0, "AM"))

T0915 == SameDay(7, Clock(9, 15, "AM"), Clock(10, 15, "AM"))

T1100 == SameDay(7, Clock(11, 0, "AM"), Clock(12, 0, "PM"))

TBD == Text("other", 0, NoClock, 0, NoClock)

B210 == <<"Babbio", "210">>

B210Annex == <<"Babbio", "210", "Annex">>

\* batches around a combined Tech Flex booking
CombinedRows ==
    { Row("Gala", T0900, TFA, "chairs", "YES"),
      Row("Gala", T0900, TFB, "tables", "YES"),
      Row("Gala", T0900, TFC, "", "YES"),
      Row("Gala", T1100, TFB, "tables", "YES"),
      Row(" GALA", T0900, TFC, "", "NO"),
      Row("Gala", T0900, B210, "", "YES"),
      Row("Expo", T1100, TFA, "", "yes ") }

\* batches of bookings of one room under two location texts
VenueRows ==
    { Row("Expo", t, l, "", f) :
        t \in {T0900, T0915, T1100, TBD}, l \in {B210, B210Annex}, f \in {"YES", "NO"} }

BatchesOf(choices, n) == UNION {[1..m -> choices] : m \in 0..n}

Permutations_(S) == {f \in [1..Cardinality(S) -> S] : Range(f) = S}

\* the orders in which a set of the requirement texts may be iterated:
\* Python leaves the order of a set of str open
HashOrders == Permutations_({"chairs", "tables"})

\* the events and the neighbours handed to generate_internal_notes
Slot(day, h1, m1, h2, m2) ==
    [event_name |-> "Expo", location |-> B210,
     start_time |-> day + HM(h1, m1), end_time |-> day + HM(h2, m2),
     setup_requirements |-> <<Placeholder>>]

EventSlots(d) ==
    { Slot(d, 8, 0, 9, 0), Slot(d, 9, 0, 10, 30), Slot(d, 11, 0, 12, 30),
      Slot(d, 14, 0, 16, 0), Slot(d, 13, 30, 14, 30), Slot(d, 18, 30, 20, 30),
      Slot(d, 7, 0, 8, 0), Slot(d, 22, 30, 23, 30) }

RuleEvents == EventSlots(Monday) \cup EventSlots(Friday)

CtxEvents(day) ==
    { Slot(day, 7, 0, 7, 30), Slot(day, 9, 0, 10, 30), Slot(day, 9, 0, 10, 0),
      Slot(day, 9, 15, 10, 15), Slot(day, 11, 0, 12, 15),
      Slot(day, 16, 10, 17, 0), Slot(day, 16, 15, 17, 0), Slot(day, 17, 0, 18, 0) }

NoNotes == [pending |-> TRUE]

\* the date/time texts handed to parse_datetime
Clocks ==
    { Clock(9, 0, "AM"), Clock(10, 0, "PM"), Clock(1, 0, "AM"),
      Clock(12, 30, "PM"), Clock(13, 0, "PM") }

Texts ==
    { Text("range", d, t1, d, t2) : d \in {7, 11}, t1 \in Clocks, t2 \in Clocks }
    \cup { Text("range2", 7, t1, d2, t2) : d2 \in {7, 8}, t1 \in Clocks, t2 \in Clocks }
    \cup { Text(f, d, NoClock, d, NoClock) : f \in {"dmy", "date"}, d \in {7, 11} }
    \cup { TBD, Text("empty", 0, NoClock, 0, NoClock) }

NoParse == <<>>

----------------------------------------------------------------------------
(* The state machine *)

CsvIdle ==
    /\ rows = <<>> /\ all_events = <<>> /\ events = <<>>
    /\ combined_bookings = <<>> /\ venue_date_events = <<>>
    /\ processed_combined = {} /\ notes_output = <<>> /\ pc = "idle" /\ i = 1

RuleIdle == arg_event = NoNotes /\ arg_same_venue_events = <<>> /\ ret_notes = NoNotes

ParseIdle == date_time_str = TBD /\ ret_parse = NoParse

CsvStart(batches) ==
    /\ rows \in batches
    /\ all_events = <<>> /\ events = <<>>
    /\ combined_bookings = <<>> /\ venue_date_events = <<>>
    /\ processed_combined = {} /\ notes_output = <<>> /\ pc = "start" /\ i = 1

\* process_csv up to the loop over events
LoadCSV ==
    /\ pc = "start"
    /\ all_events' = load_all_events(rows)
    /\ events' = load_events(all_events')
    /\ IF events' = <<>>
       THEN /\ notes_output' = <<NoEvents>>
            /\ pc' = "done"
            /\ UNCHANGED <<combined_bookings, venue_date_events>>
       ELSE /\ combined_bookings' = detect_techflex_abc_booking(all_events')
            /\ venue_date_events' = group_by_venue_date(all_events')
            /\ notes_output' = <<>>
            /\ pc' = "loop"
    /\ UNCHANGED <<rows, processed_combined, i>>
    /\ UNCHANGED <<rule_vars, parse_vars>>

\* one iteration of the loop over events, and the return after the last
ProcessEvent ==
    /\ pc = "loop"
    /\ i <= Len(events)
    /\ \E order \in HashOrders :
          LET st == Iteration([all_events |-> all_events,
                               processed_combined |-> processed_combined,
                               notes_output |-> notes_output, i |-> i],
                              events, combined_bookings, venue_date_events, order)
          IN /\ all_events' = st.all_events
             /\ processed_combined' = st.processed_combined
             /\ notes_output' = st.notes_output
             /\ i' = st.i
             /\ pc' = IF st.i > Len(events) THEN "done" ELSE "loop"
    /\ UNCHANGED <<rows, events, combined_bookings, venue_date_events>>
    /\ UNCHANGED <<rule_vars, parse_vars>>

GenerateNotes ==
    /\ ret_notes = NoNotes
    /\ arg_event # NoNotes
    /\ ret_notes' = generate_internal_notes(arg_event, get_venue_code(arg_event.location),
                                            arg_same_venue_events)
    /\ UNCHANGED <<arg_event, arg_same_venue_events>>
    /\ UNCHANGED <<csv_vars, parse_vars>>

ParseDatetime ==
    /\ ret_parse = NoParse
    /\ ret_parse' = parse_datetime(date_time_str)
    /\ UNCHANGED date_time_str
    /\ UNCHANGED <<csv_vars, rule_vars>>

\* process_csv on a batch around a combined booking
Init == CsvStart(BatchesOf(CombinedRows, MaxRows)) /\ RuleIdle /\ ParseIdle

Next == LoadCSV \/ ProcessEvent

Spec == Init /\ [][Next]_vars

\* process_csv on a batch of bookings of one room
InitVenue == CsvStart(BatchesOf(VenueRows, MaxVenueRows)) /\ RuleIdle /\ ParseIdle

SpecVenue == InitVenue /\ [][Next]_vars

\* generate_internal_notes on an event and its neighbours of the same day
InitRules ==
    /\ arg_event \in RuleEvents
    /\ arg_same_venue_events \in BatchesOf(CtxEvents(At(date(arg_event.start_time), 0)), MaxCtx)
    /\ ret_notes = NoNotes
    /\ CsvIdle /\ ParseIdle

NextRules == GenerateNotes

SpecRules == InitRules /\ [][NextRules]_vars

\* parse_datetime on a date/time text
InitParse ==
    /\ date_time_str \in Texts
    /\ ret_parse = NoParse
    /\ CsvIdle /\ RuleIdle

NextParse == ParseDatetime

SpecParse == InitParse /\ [][NextParse]_vars

----------------------------------------------------------------------------
(* Claims about the setup and breakdown rules (SpecRules) *)

Returned == ret_notes # NoNotes

EventStartsAt(h, m) ==
    hour(arg_event.start_time) = h /\ minute(arg_event.start_time) = m

SameDate(dt, h, m) == replace(dt, h, m)

Neighbours == Range(arg_same_venue_events)

\* the setup instant of the event when it has no neighbour
BaseSetup == calculate_setup_time(arg_event.start_time, <<>>)

\* C1 as stated: an event starting at 08:00 gets the early-overtime setup
\* instant 06:00 of its date, whatever the conflict context.
C1_EarlyOvertime ==
    (Returned /\ EventStartsAt(8, 0)) =>
        ret_notes.setup_time = SameDate(arg_event.start_time, 6, 0)

\* C1 amended: an event starting at 08:00 gets its setup at 08:00 of its
\* date (the 06:00 default, moved to WORK_START), whatever the conflict
\* context: lunch and conflict handling never move it.
C1_WorkStart ==
    (Returned /\ EventStartsAt(8, 0)) =>
        ret_notes.setup_time = SameDate(arg_event.start_time, WORK_START, 0)

C1_Witness ==
    /\ Returned
    /\ EventStartsAt(8, 0)
    /\ \E o \in Neighbours : o.end_time < arg_event.start_time
    /\ ret_notes.setup_time = arg_event.start_time

InLunch(dt) == hour(dt) = 12

\* C2: a default setup instant inside 12:00-13:00 becomes 11:00, and the
\* setup instant returned is never inside 12:00-13:00, for every event and
\* every conflict context.
C2_LunchExclusion ==
    Returned =>
        /\ (InLunch(DefaultSetup(arg_event.start_time)) /\ Neighbours = {}) =>
               ret_notes.setup_time = SameDate(arg_event.start_time, 11, 0)
        /\ ~InLunch(ret_notes.setup_time)

MovesSetup(o) ==
    /\ date(o.end_time) = date(arg_event.start_time)
    /\ BaseSetup < o.end_time
    /\ o.end_time < arg_event.start_time

\* C3 as stated: the setup instant with neighbours equals the setup instant
\* without them.
C3_NeighboursNeverMove ==
    Returned => ret_notes.setup_time = BaseSetup

\* C3 amended: a neighbour moves the setup instant only when it ends on the
\* event's date strictly between the setup instant without neighbours and
\* the event's start, and then to 15 minutes after such a neighbour's end,
\* never earlier than without neighbours.  With A 09:00-10:30 as the only
\* neighbour, the setup of B 11:00-12:30 is 10:45.
C3_NeighboursMoveLater ==
    Returned =>
        /\ ret_notes.setup_time >= BaseSetup
        /\ (\A o \in Neighbours : ~MovesSetup(o)) => ret_notes.setup_time = BaseSetup
        /\ ret_notes.setup_time # BaseSetup =>
               \E o \in Neighbours : MovesSetup(o) /\ ret_notes.setup_time = o.end_time + 15
        /\ (/\ EventStartsAt(11, 0)
            /\ Len(arg_same_venue_events) = 1
            /\ \A o \in Neighbours :
                   o.start_time = SameDate(arg_event.start_time, 9, 0)
                   /\ o.end_time = SameDate(arg_event.start_time, 10, 30)) =>
               ret_notes.setup_time = SameDate(arg_event.start_time, 10, 45)

C3_Witness ==
    /\ Returned
    /\ EventStartsAt(11, 0)
    /\ Len(arg_same_venue_events) = 1
    /\ arg_same_venue_events[1].end_time = SameDate(arg_event.start_time, 10, 30)
    /\ BaseSetup = SameDate(arg_event.start_time, 9, 0)
    /\ ret_notes.setup_time = SameDate(arg_event.start_time, 10, 45)

NextDay(dt) == dt + timedelta_days(1)

\* C6 as stated: an event ending at or after 15:00 whose following day is a
\* weekday has its breakdown on the next calendar day, never at its own end
\* instant.
C6_DeferredFrom15 ==
    (Returned /\ hour(arg_event.end_time) >= 15 /\ weekday(NextDay(arg_event.end_time)) < 5) =>
        /\ date(ret_notes.breakdown_time) = date(arg_event.end_time) + 1
        /\ ret_notes.breakdown_time # arg_event.end_time

\* C6 amended: an event ending at or after 20:00 (WORK_END) has its
\* breakdown at 10:00 of the next calendar day, whatever the weekday; an
\* event ending before 20:00 has it on the day it ends, at its end instant
\* or 15 minutes later, and at its end instant when it has no neighbour, on
\* a Monday as on a Friday.
C6_DeferredFrom20 ==
    Returned =>
        IF hour(arg_event.end_time) >= WORK_END
        THEN /\ ret_notes.breakdown_time = SameDate(NextDay(arg_event.end_time), 10, 0)
             /\ ret_notes.breakdown_note = <<>>
        ELSE /\ ret_notes.breakdown_time \in {arg_event.end_time, arg_event.end_time + 15}
             /\ Neighbours = {} => ret_notes.breakdown_time = arg_event.end_time

C6_Witness ==
    /\ Returned
    /\ weekday(arg_event.end_time) = 0
    /\ hour(arg_event.end_time) = WORK_END
    /\ Neighbours # {}
    /\ ret_notes.breakdown_time = SameDate(NextDay(arg_event.end_time), 10, 0)

EndsBefore(o) ==
    /\ date(o.end_time) = date(arg_event.start_time)
    /\ o.end_time < arg_event.start_time

\* C11: the setup instant returned by calculate_setup_time is at or after
\* the end of every other event of the context that ends on the date of
\* the event's start and strictly before it, in any order of the context.
C11_SetupAfterEarlier ==
    Returned => \A o \in Neighbours : EndsBefore(o) => ret_notes.setup_time >= o.end_time

C11_Witness ==
    /\ Returned
    /\ Len(arg_same_venue_events) = 2
    /\ arg_same_venue_events[1].end_time > arg_same_venue_events[2].end_time
    /\ \A o \in Neighbours : MovesSetup(o)
    /\ ret_notes.setup_time = arg_same_venue_events[1].end_time + 15

StartsAfter(o) ==
    /\ date(o.start_time) = date(arg_event.end_time)
    /\ o.start_time > arg_event.end_time

\* C12: for an event ending before 20:00 the breakdown instant returned by
\* calculate_breakdown_time is not later than the start of any other event
\* of the context that starts on the date of the event's end and strictly
\* after it, in any order of the context.
C12_BreakdownBeforeNext ==
    (Returned /\ hour(arg_event.end_time) < WORK_END) =>
        \A o \in Neighbours : StartsAfter(o) => ret_notes.breakdown_time <= o.start_time

\* C13: the setup instant returned by calculate_setup_time is at or before
\* the event's start, for every start and every conflict context.
C13_SetupBeforeStart ==
    Returned => ret_notes.setup_time <= arg_event.start_time

----------------------------------------------------------------------------
(* Claims about process_csv (Spec, SpecVenue) *)

Done == pc = "done"

Looping == pc \in {"loop", "done"}

\* the entries of a notes_output that are notes of an event
NotesOf(output) == {output[k] : k \in {j \in 1..Len(output) : output[j].event # 0}}

RowPermutations == {p \in [1..Len(rows) -> 1..Len(rows)] : Range(p) = 1..Len(rows)}

\* the batch with its rows in the order p: its row k is row p[k] of rows
Permuted(p) == [k \in 1..Len(rows) |-> rows[p[k]]]

Identity == [k \in 1..Len(rows) |-> k]

\* the decisions of a run, each with the row of rows it was taken for
Decisions(run, p) ==
    { [row |-> p[run.all_events[n.event].raw_row],
       error |-> n.notes.error,
       setup_time |-> n.notes.setup_time,
       breakdown_time |-> n.notes.breakdown_time,
       breakdown_note |-> n.notes.breakdown_note] : n \in NotesOf(run.notes_output) }

ThisRun == [all_events |-> all_events, notes_output |-> notes_output]

\* C4: whatever the order of the records of the batch, every processed
\* event receives the same setup instant, breakdown instant and breakdown
\* note.
C4_OrderIndependent ==
    Done => \A p \in RowPermutations : \A order \in HashOrders :
                Decisions(process_csv(Permuted(p), order), p) = Decisions(ThisRun, Identity)

\* the rows of the one complete A/B/C booking of the batch, if there is one
CompleteBooking ==
    IF Looping /\ Cardinality(DOMAIN combined_bookings) = 1
    THEN UNION {{all_events[k].raw_row : k \in Range(combined_bookings[key])} :
                    key \in DOMAIN combined_bookings}
    ELSE {}

\* what a run reports of its merged events
MergedEvents(run) ==
    { [venue_code |-> n.venue_code,
       location |-> n.location,
       start_time |-> run.all_events[n.event].start_time,
       end_time |-> run.all_events[n.event].end_time,
       setup_requirements |-> n.notes.setup_requirements,
       setup_time |-> n.notes.setup_time,
       breakdown_time |-> n.notes.breakdown_time,
       breakdown_note |-> n.notes.breakdown_note] :
         n \in {m \in NotesOf(run.notes_output) : m.venue_code = "UCCABC"} }

\* C5: with the rows of Tech Flex Space A, B and C under one event name and
\* date, every permutation of the three rows yields one merged event of the
\* same content.
C5_MergeCommutative ==
    (Done /\ Cardinality(CompleteBooking) = 3 /\ NotesOf(notes_output) # {}) =>
        \A p \in RowPermutations : \A order \in HashOrders :
            (\A k \in 1..Len(rows) : k \notin CompleteBooking => p[k] = k) =>
                /\ Cardinality(MergedEvents(ThisRun)) = 1
                /\ MergedEvents(process_csv(Permuted(p), order)) = MergedEvents(ThisRun)

RowMarkedYes(row) ==
    row.process_event # "" /\ strip_upper(row.process_event) = "YES"

\* C7: a row marked for processing whose date/time text is of no supported
\* form stays among the processed events and has an entry in the output.
C7_UnparseableRetained ==
    Done => \A k \in 1..Len(rows) :
                (RowMarkedYes(rows[k]) /\ parse_datetime(rows[k].date_time) = <<None, None>>) =>
                    /\ \E e \in Range(events) : all_events[e].raw_row = k
                    /\ \E n \in NotesOf(notes_output) : all_events[n.event].raw_row = k

SameVenueAndDate(e1, e2) ==
    /\ get_venue_code(e1.location) = get_venue_code(e2.location)
    /\ date(e1.start_time) = date(e2.start_time)

\* C8: the conflict context of a processed event that is not a combined
\* booking is exactly the other events, marked or not, of its venue code
\* and date.
C8_ContextByVenueCode ==
    Looping => \A n \in NotesOf(notes_output) :
                   n.venue_code # "UCCABC" =>
                       Range(n.same_venue_events) =
                           {k \in 1..Len(all_events) :
                               k # n.event /\ SameVenueAndDate(all_events[k], all_events[n.event])}

Loaded == load_all_events(rows)

\* C10 as stated: after process_csv every event record is as it was loaded.
C10_RecordsUnchanged ==
    Looping => all_events = Loaded

Representatives == {n.event : n \in {m \in NotesOf(notes_output) : m.venue_code = "UCCABC"}}

\* C10 amended: processing never changes the name, the start and end
\* instants or the processing flag of an event record; it rewrites the
\* location (to the combined label) and the setup-requirement text of the
\* one record processed for a combined booking, and of no other record.
C10_OnlyRepresentativeRewritten ==
    Looping =>
        LET before == Loaded
            rewritten == Representatives
        IN /\ Len(all_events) = Len(before)
           /\ \A k \in 1..Len(all_events) :
                  /\ all_events[k].event_name = before[k].event_name
                  /\ all_events[k].start_time = before[k].start_time
                  /\ all_events[k].end_time = before[k].end_time
                  /\ all_events[k].process_event = before[k].process_event
                  /\ all_events[k].raw_row = before[k].raw_row
                  /\ k \notin rewritten => all_events[k] = before[k]
                  /\ k \in rewritten => all_events[k].location = CombinedLocation

C10_Witness ==
    /\ Done
    /\ \E k \in Representatives :
           /\ all_events[k].location # Loaded[k].location
           /\ all_events[k].setup_requirements # Loaded[k].setup_requirements
    /\ \E k \in 1..Len(all_events) :
           k \notin Representatives /\ IsTechFlex(all_events[k])

\* the processed events that were loaded with a location other than a
\* Tech Flex sub-space
OtherVenues == {e \in Range(events) : ~Contains(<<"UCC", "Tech", "Flex", "Space">>, Loaded[e].location)}

\* C14: a processed event whose location is not a Tech Flex sub-space is
\* never given the venue code UCCABC, keeps its location, and is never
\* skipped as an already processed combined booking: it has its own notes
\* when process_csv has finished.
C14_OnlySubSpacesCombined ==
    Looping =>
        LET others == OtherVenues
        IN /\ \A n \in NotesOf(notes_output) :
                  n.event \in others =>
                      /\ n.venue_code # "UCCABC"
                      /\ n.location # CombinedLocation
           /\ \A e \in others : all_events[e].location # CombinedLocation
           /\ Done => \A e \in others : \E n \in NotesOf(notes_output) : n.event = e

----------------------------------------------------------------------------
(* Claims about parse_datetime (SpecParse) *)

\* C9: when parsing yields both instants, start <= end.
C9_StartBeforeEnd ==
    (ret_parse # NoParse /\ ret_parse[1] # None /\ ret_parse[2] # None) =>
        ret_parse[1] <= ret_parse[2]

====
